---- MODULE Spec2Model ----
(***************************************************************************)
(* Speaking Speed Analyzer (src/src/App.tsx): the recording session, the   *)
(* transcript aggregation, the WPM derivation and the bounded history of   *)
(* the App component, with the Web Speech recognizers and the interval     *)
(* timer it drives.                                                        *)
(*                                                                         *)
(* Text is a sequence of one-character strings.  Time is in milliseconds,  *)
(* as Date.now() gives it; `duration` holds the elapsed time in            *)
(* thousandths of a second (the code's float seconds times 1000).          *)
(*                                                                         *)
(* React runs an event handler to completion, re-renders, and then runs    *)
(* the effects whose dependencies changed (cleanup of the previous run     *)
(* first) before any other event is handled: each action below is one      *)
(* handler followed by that commit.  The theme and the region selection    *)
(* are presentation state and are left out.                                *)
(***************************************************************************)
EXTENDS Integers, Sequences, FiniteSets, TLC

VARIABLES
    isRecording,          \* useState(false)
    transcript,           \* useState('')
    wordCount,            \* useState(0)
    duration,             \* useState(0), in ms
    wpm,                  \* useState(0)
    results,              \* useState<SpeechResult[]>([]), newest first
    isSupported,          \* useState(true)
    error,                \* useState('')
    recognitionRef,       \* the recognizer instance the last effect run made
    startTimeRef,         \* useRef(0)
    intervalRef,          \* useRef(null): 0 is null, else the interval's id
    currentTranscriptRef, \* useRef('')
    running,              \* the recognizer instances that have been started
    timers,               \* the ids of the intervals that are scheduled
    now,                  \* Date.now()
    sessions,             \* number of successful start() calls so far
    created,              \* number of recognizer instances constructed so far
    saved,                \* number of SpeechResults saved so far
    op,                   \* the operation that produced this state
    bandRanges,           \* the ranges getWpmColor / getWpmLabel are applied to
    bandWpm,              \* the wpm they are applied to
    wpmLabel,             \* what getWpmLabel returned
    wpmColor              \* what getWpmColor returned

vars == <<isRecording, transcript, wordCount, duration, wpm, results,
          isSupported, error, recognitionRef, startTimeRef, intervalRef,
          currentTranscriptRef, running, timers, now, sessions, created, saved, op,
          bandRanges, bandWpm, wpmLabel, wpmColor>>

bandVars == <<bandRanges, bandWpm, wpmLabel, wpmColor>>

appVars == <<isRecording, transcript, wordCount, duration, wpm, results,
             isSupported, error, recognitionRef, startTimeRef, intervalRef,
             currentTranscriptRef, running, timers, now, sessions, created, saved, op>>

(***************************************************************************)
(* Bounds of the model.                                                    *)
(***************************************************************************)
MaxSessions == 1
MaxRunning == 1
MaxResults == 1
MaxNow == 31000

TwoSessions == 2
TwoRunning == 2
TwoResults == 1
TwoNow == 31000

StreamSessions == 1
StreamResults == 3

HistSessions == 12
HistRunning == 1
HistResults == 1
HistNow == 5000

ScenSessions == 1
ScenRunning == 1
ScenResults == 2
ScenNow == 31000

MaxBreak == 6
MaxWpm == 240

\* Program constants.
HistoryCap == 10
ActivationThreshold == 30
IntervalMs == 100
NULL == 0

(***************************************************************************)
(* Text.                                                                   *)
(***************************************************************************)
IsSpace(c) == c = " "

RECURSIVE TrimStart(_)
TrimStart(s) ==
    IF s # <<>> /\ IsSpace(Head(s)) THEN TrimStart(Tail(s)) ELSE s

RECURSIVE TrimEnd(_)
TrimEnd(s) ==
    IF s # <<>> /\ IsSpace(s[Len(s)]) THEN TrimEnd(SubSeq(s, 1, Len(s) - 1)) ELSE s

\* String.prototype.trim
Trim(s) == TrimEnd(TrimStart(s))

\* s.split(/\s+/): the pieces between the maximal runs of white space; a
\* leading or trailing run leaves an empty piece, and '' splits into [''].
RECURSIVE SplitWs(_, _, _)
SplitWs(s, cur, inGap) ==
    IF s = <<>> THEN <<cur>>
    ELSE IF IsSpace(Head(s))
         THEN IF inGap THEN SplitWs(Tail(s), cur, TRUE)
              ELSE <<cur>> \o SplitWs(Tail(s), <<>>, TRUE)
         ELSE SplitWs(Tail(s), Append(cur, Head(s)), FALSE)

Split(s) == SplitWs(s, <<>>, FALSE)

\* .filter(word => word.length > 0)
FilterNonEmpty(ws) == SelectSeq(ws, LAMBDA w : Len(w) > 0)

\* transcript.trim().split(/\s+/).filter(word => word.length > 0).length
CountWords(s) == Len(FilterNonEmpty(Split(Trim(s))))

\* Math.round(n / d) for n >= 0, d > 0: halves round up.
MathRound(n, d) == (2 * n + d) \div (2 * d)

\* Math.round((words / seconds) * 60), the seconds given in ms.
WpmOf(words, ms) == MathRound(words * 60 * 1000, ms)

IsPrefix(s, t) == Len(s) <= Len(t) /\ SubSeq(t, 1, Len(s)) = s

Min(a, b) == IF a < b THEN a ELSE b

(***************************************************************************)
(* The recognition capability (window.SpeechRecognition), configured       *)
(* continuous with interim results.  A started instance keeps the list of  *)
(* its results: the final ones first, then the interim ones.  A snapshot   *)
(* appends a result, revises an interim result, or makes the first interim *)
(* result final; resultIndex is the place of the result that changed       *)
(* (counted from 1 here, from 0 in the code).                              *)
(***************************************************************************)
Result(text, final) == [text |-> text, isFinal |-> final]

AllFinal(rs) == \A i \in 1..Len(rs) : rs[i].isFinal

Appended(rs, frags, maxResults) ==
    IF Len(rs) < maxResults
    THEN {[results |-> Append(rs, Result(t, f)), resultIndex |-> Len(rs) + 1] :
            t \in frags, f \in {g \in BOOLEAN : g => AllFinal(rs)}}
    ELSE {}

Revised(rs, frags) ==
    UNION {{[results |-> [rs EXCEPT ![i] = Result(t, FALSE)], resultIndex |-> i] :
               t \in frags \ {rs[i].text}} :
           i \in {j \in 1..Len(rs) : ~rs[j].isFinal}}

Finalized(rs, frags) ==
    UNION {{[results |-> [rs EXCEPT ![i] = Result(t, TRUE)], resultIndex |-> i] :
               t \in frags} :
           i \in {j \in 1..Len(rs) : ~rs[j].isFinal /\ AllFinal(SubSeq(rs, 1, j - 1))}}

\* The events a running instance can deliver next.
Snapshots(rs, frags, maxResults) ==
    Appended(rs, frags, maxResults) \cup Revised(rs, frags) \cup Finalized(rs, frags)

\* new SpeechRecognition(), with the onend closure's isRecording (App.tsx:147)
NewRecognition(id, rec) == [id |-> id, isRecording |-> rec]

\* recognition.start(): the instance becomes a running stream
Started(inst, session) ==
    [id |-> inst.id, isRecording |-> inst.isRecording, session |-> session,
     results |-> <<>>, complete |-> <<>>, phase |-> "live"]

\* recognition.stop(): a running instance is asked to stop, any other ignores it
StopRequested(inst, streams) ==
    {IF r.id = inst.id THEN [r EXCEPT !.phase = "stopping"] ELSE r : r \in streams}

(***************************************************************************)
(* recognition.onresult: the transcript of one snapshot.                   *)
(***************************************************************************)
RECURSIVE Concat(_, _, _, _)
Concat(rs, from, final, acc) ==
    IF from > Len(rs) THEN acc
    ELSE Concat(rs, from + 1, final,
                IF rs[from].isFinal = final THEN acc \o rs[from].text ELSE acc)

\* for (i = event.resultIndex; ...) if (!isFinal) interimTranscript += ...
InterimTranscript(event) == Concat(event.results, event.resultIndex, FALSE, <<>>)

\* Variant: the final results collected from event.resultIndex on, as the
\* first loop does.
CompleteFromIndex(event) == Concat(event.results, event.resultIndex, TRUE, <<>>)

\* for (i = 0; ...) if (isFinal) completeTranscript += ...
CompleteTranscript(event) == Concat(event.results, 1, TRUE, <<>>)

FullTranscript(event) == CompleteTranscript(event) \o InterimTranscript(event)

(***************************************************************************)
(* The WPM effect, run after every commit that changed transcript,         *)
(* duration or isRecording.                                                *)
(***************************************************************************)
\* Variant: below the threshold the wpm is set from the word count.
WpmEffectEarly(rec, tr, dur, wc, w) ==
    IF rec /\ Trim(tr) # <<>>
    THEN [wordCount |-> CountWords(tr),
          wpm |-> IF dur >= ActivationThreshold * 1000
                  THEN WpmOf(CountWords(tr), dur) ELSE CountWords(tr)]
    ELSE [wordCount |-> wc, wpm |-> w]

WpmEffect(rec, tr, dur, wc, w) ==
    IF rec /\ dur >= ActivationThreshold * 1000 /\ Trim(tr) # <<>>
    THEN [wordCount |-> CountWords(tr), wpm |-> WpmOf(CountWords(tr), dur)]
    ELSE IF rec /\ Trim(tr) # <<>>
         THEN [wordCount |-> CountWords(tr), wpm |-> 0]
         ELSE [wordCount |-> wc, wpm |-> w]

(***************************************************************************)
(* The recognition effect, re-run when isRecording changed: the cleanup of *)
(* the previous run, then a new recognizer in recognitionRef.              *)
(***************************************************************************)
\* Variant: a clearInterval that leaves the interval scheduled.
ClearIntervalKeeps(id, ts) == ts

ClearInterval(id, ts) == ts \ {id}

\* Variant: a cleanup that clears nothing.
EffectCleanupKeeps(ref, ts) == ts

EffectCleanup(ref, ts) == IF ref # NULL THEN ClearInterval(ref, ts) ELSE ts

\* the interval callback: elapsed = (Date.now() - startTimeRef.current) / 1000
IntervalCallback(t, start) == t - start

(***************************************************************************)
(* stopRecording's final statistics and the history.                       *)
(***************************************************************************)
FinalWpm(finalWordCount, finalDuration) ==
    IF finalDuration > 0 THEN WpmOf(finalWordCount, finalDuration) ELSE 0

\* Variant: the word count is not required to be positive.
HasContentAnyCount(finalTranscript, finalWordCount) ==
    finalWordCount >= 0

\* if (finalTranscript && finalWordCount > 0)
HasContent(finalTranscript, finalWordCount) ==
    finalTranscript # <<>> /\ finalWordCount > 0

SpeechResult(finalTranscript, finalDuration, t) ==
    [transcript |-> finalTranscript,
     wordCount |-> CountWords(finalTranscript),
     duration |-> finalDuration,
     wpm |-> FinalWpm(CountWords(finalTranscript), finalDuration),
     timestamp |-> t]

\* Variant: the result appended at the tail, the head dropped on overflow.
SaveResultAtTail(result, prev) ==
    SubSeq(prev \o <<result>>, Len(prev) + 2 - Min(Len(prev) + 1, HistoryCap), Len(prev) + 1)

\* [result, ...prev].slice(0, 10)
SaveResult(result, prev) ==
    SubSeq(<<result>> \o prev, 1, Min(Len(prev) + 1, HistoryCap))

(***************************************************************************)
(* The speed bands: REGIONAL_SPEEDS and the two cascades that classify a   *)
(* wpm against the ranges of a region.  normal[1] and normal[2] are the    *)
(* code's normal[0] and normal[1].                                         *)
(***************************************************************************)
Ranges(slow, low, high, fast, veryFast) ==
    [slow |-> slow, normal |-> <<low, high>>, fast |-> fast, veryFast |-> veryFast]

REGIONAL_SPEEDS ==
    [us |-> Ranges(120, 150, 180, 200, 220),
     uk |-> Ranges(110, 140, 170, 190, 210),
     au |-> Ranges(115, 145, 175, 195, 215),
     ca |-> Ranges(118, 148, 178, 198, 218),
     in |-> Ranges(130, 160, 190, 210, 230),
     sg |-> Ranges(135, 165, 195, 215, 235),
     za |-> Ranges(125, 155, 185, 205, 225),
     ie |-> Ranges(115, 145, 175, 195, 215),
     nz |-> Ranges(112, 142, 172, 192, 212)]

Regions == DOMAIN REGIONAL_SPEEDS

\* slow < normal.low <= normal.high < fast < veryFast
ValidRanges(r) ==
    /\ r.slow < r.normal[1]
    /\ r.normal[1] <= r.normal[2]
    /\ r.normal[2] < r.fast
    /\ r.fast < r.veryFast

\* Variant: the third test of the cascade made inclusive.
GetWpmColorInclusive(w, r) ==
    IF w = 0 THEN "text-gray-400 dark:text-gray-500"
    ELSE IF w < r.slow THEN "text-red-500"
    ELSE IF w >= r.normal[1] /\ w <= r.normal[2] THEN "text-green-500"
    ELSE IF w <= r.fast THEN "text-yellow-500"
    ELSE "text-blue-500"

GetWpmColor(w, r) ==
    IF w = 0 THEN "text-gray-400 dark:text-gray-500"
    ELSE IF w < r.slow THEN "text-red-500"
    ELSE IF w >= r.normal[1] /\ w <= r.normal[2] THEN "text-green-500"
    ELSE IF w < r.fast THEN "text-yellow-500"
    ELSE "text-blue-500"

\* Variant: a cascade monotone in the wpm, everything below the normal
\* interval labelled Slow.
GetWpmLabelMonotone(w, r) ==
    IF w = 0 THEN "Calculating..."
    ELSE IF w < r.normal[1] THEN "Slow"
    ELSE IF w <= r.normal[2] THEN "Ideal"
    ELSE IF w < r.fast THEN "Fast"
    ELSE "Very Fast"

GetWpmLabel(w, r) ==
    IF w = 0 THEN "Calculating..."
    ELSE IF w < r.slow THEN "Slow"
    ELSE IF w >= r.normal[1] /\ w <= r.normal[2] THEN "Ideal"
    ELSE IF w < r.fast THEN "Fast"
    ELSE "Very Fast"

Op(name, session, arg) == [name |-> name, session |-> session, arg |-> arg]

(***************************************************************************)
(* Initial state: the component mounted, its effects run once.             *)
(***************************************************************************)
Mounted ==
    /\ isRecording = FALSE
    /\ transcript = <<>>
    /\ wordCount = 0
    /\ duration = 0
    /\ wpm = 0
    /\ results = <<>>
    /\ isSupported \in BOOLEAN
    /\ error = IF isSupported THEN "" ELSE "Speech recognition is not supported in this browser. Please use Chrome, Edge, or Safari."
    /\ recognitionRef = IF isSupported THEN NewRecognition(1, FALSE) ELSE NewRecognition(NULL, FALSE)
    /\ startTimeRef = 0
    /\ intervalRef = NULL
    /\ currentTranscriptRef = <<>>
    /\ running = {}
    /\ timers = {}
    /\ now = 0
    /\ sessions = 0
    /\ created = IF isSupported THEN 1 ELSE 0
    /\ saved = 0
    /\ op = Op("mount", 0, "")

\* The band display starts on the default region with the wpm 0.
Init ==
    /\ Mounted
    /\ bandRanges = REGIONAL_SPEEDS["us"]
    /\ bandWpm = 0
    /\ wpmLabel = GetWpmLabel(bandWpm, bandRanges)
    /\ wpmColor = GetWpmColor(bandWpm, bandRanges)

(***************************************************************************)
(* Operations.  b holds the bounds of the specification: the fragments the *)
(* recognizer may deliver, the steps time advances by, and the caps.       *)
(***************************************************************************)
Bounds(frags, steps, maxNow, maxSessions, maxRunning, maxResults) ==
    [frags |-> frags, steps |-> steps, maxNow |-> maxNow,
     maxSessions |-> maxSessions, maxRunning |-> maxRunning,
     maxResults |-> maxResults]

\* startRecording, recognition.start() succeeding.  The Start button is the
\* one rendered while isRecording is false.
StartRecording(b) ==
    /\ isSupported /\ ~isRecording
    /\ sessions < b.maxSessions
    /\ Cardinality(running) < b.maxRunning
    /\ error' = ""
    /\ transcript' = <<>>
    /\ wordCount' = 0
    /\ duration' = 0
    /\ wpm' = 0
    /\ currentTranscriptRef' = <<>>
    /\ startTimeRef' = now
    /\ isRecording' = TRUE
    /\ sessions' = sessions + 1
    /\ running' = running \cup {Started(recognitionRef, sessions + 1)}
    /\ intervalRef' = sessions + 1
       \* setInterval, then the commit: isRecording changed, so the previous
       \* effect run is cleaned up and a new recognizer is made
    /\ timers' = EffectCleanup(intervalRef', timers \cup {intervalRef'})
    /\ created' = created + 1
    /\ recognitionRef' = NewRecognition(created', isRecording')
    /\ UNCHANGED bandVars
    /\ op' = Op("start", sessions', "")
    /\ UNCHANGED <<results, isSupported, now, saved>>

\* Variant: the catch block without its return, so that the interval is set
\* although the start failed.
StartRecordingFailsNoReturn ==
    /\ isSupported /\ ~isRecording
    /\ error' = "Failed to start speech recognition. Please try again."
    /\ transcript' = <<>>
    /\ wordCount' = 0
    /\ duration' = 0
    /\ wpm' = 0
    /\ currentTranscriptRef' = <<>>
    /\ startTimeRef' = now
    /\ isRecording' = FALSE
    /\ intervalRef' = sessions + 1
    /\ timers' = timers \cup {intervalRef'}
    /\ UNCHANGED bandVars
    /\ op' = Op("startFails", sessions, "")
    /\ UNCHANGED <<results, isSupported, recognitionRef, running, now, sessions,
                   created, saved>>

\* startRecording, recognition.start() throwing: isRecording is set and set
\* back in one batch, so no effect is re-run and no interval is set.
StartRecordingFails ==
    /\ isSupported /\ ~isRecording
    /\ error' = "Failed to start speech recognition. Please try again."
    /\ transcript' = <<>>
    /\ wordCount' = 0
    /\ duration' = 0
    /\ wpm' = 0
    /\ currentTranscriptRef' = <<>>
    /\ startTimeRef' = now
    /\ isRecording' = FALSE
    /\ UNCHANGED bandVars
    /\ op' = Op("startFails", sessions, "")
    /\ UNCHANGED <<results, isSupported, recognitionRef, intervalRef, running,
                   timers, now, sessions, created, saved>>

\* stopRecording.  The Stop button is the one rendered while isRecording.
StopRecording ==
    /\ isSupported /\ isRecording
    /\ isRecording' = FALSE
    /\ running' = StopRequested(recognitionRef, running)
    /\ intervalRef' = NULL
    /\ LET finalTranscript == Trim(currentTranscriptRef)
           finalWordCount == CountWords(finalTranscript)
           cleared == IF intervalRef # NULL THEN ClearInterval(intervalRef, timers)
                      ELSE timers
       IN /\ results' = IF HasContent(finalTranscript, finalWordCount)
                        THEN SaveResult(SpeechResult(finalTranscript, duration, now), results)
                        ELSE results
          /\ saved' = IF HasContent(finalTranscript, finalWordCount)
                      THEN saved + 1 ELSE saved
          /\ timers' = EffectCleanup(intervalRef', cleared)
    /\ created' = created + 1
    /\ recognitionRef' = NewRecognition(created', isRecording')
    /\ UNCHANGED bandVars
    /\ op' = Op("stop", sessions, "")
    /\ UNCHANGED <<transcript, wordCount, duration, wpm, isSupported, error,
                   startTimeRef, currentTranscriptRef, now, sessions>>

\* Variant: a reset that empties the history as well.
ResetClearsHistory ==
    /\ isSupported
    /\ transcript' = <<>>
    /\ wordCount' = 0
    /\ duration' = 0
    /\ wpm' = 0
    /\ error' = ""
    /\ currentTranscriptRef' = <<>>
    /\ results' = <<>>
    /\ UNCHANGED bandVars
    /\ op' = Op("reset", sessions, "")
    /\ UNCHANGED <<isRecording, isSupported, recognitionRef,
                   startTimeRef, intervalRef, running, timers, now, sessions,
                   created, saved>>

\* reset.  The Reset button is always rendered.
Reset ==
    /\ isSupported
    /\ transcript' = <<>>
    /\ wordCount' = 0
    /\ duration' = 0
    /\ wpm' = 0
    /\ error' = ""
    /\ currentTranscriptRef' = <<>>
    /\ UNCHANGED bandVars
    /\ op' = Op("reset", sessions, "")
    /\ UNCHANGED <<isRecording, results, isSupported, recognitionRef,
                   startTimeRef, intervalRef, running, timers, now, sessions,
                   created, saved>>

\* recognition.onresult of a running instance, then the WPM effect.
OnResult(b) ==
    \E r \in running :
      /\ r.phase # "errored"
      /\ \E event \in Snapshots(r.results, b.frags, b.maxResults) :
           /\ currentTranscriptRef' = FullTranscript(event)
           /\ transcript' = FullTranscript(event)
           /\ running' = (running \ {r}) \cup
                 {[r EXCEPT !.results = event.results,
                            !.complete = CompleteTranscript(event)]}
           /\ LET e == WpmEffect(isRecording, transcript', duration, wordCount, wpm)
              IN wordCount' = e.wordCount /\ wpm' = e.wpm
      /\ UNCHANGED bandVars
      /\ op' = Op("onresult", r.session, "")
      /\ UNCHANGED <<isRecording, duration, results, isSupported, error,
                     recognitionRef, startTimeRef, intervalRef, timers, now,
                     sessions, created, saved>>

ErrorReasons == {"no-speech", "network"}

\* Variant: the reason left out of the message.
ErrorMessageNoReason(reason) == "Speech recognition error"

\* `Speech recognition error: ${event.error}`
ErrorMessage(reason) == "Speech recognition error: " \o reason

\* recognition.onerror of a running instance; when isRecording changes the
\* recognition effect is re-run.
OnError ==
    \E r \in running, reason \in ErrorReasons :
      /\ r.phase = "live"
      /\ error' = ErrorMessage(reason)
      /\ isRecording' = FALSE
      /\ running' = (running \ {r}) \cup {[r EXCEPT !.phase = "errored"]}
      /\ timers' = IF isRecording THEN EffectCleanup(intervalRef, timers) ELSE timers
      /\ created' = IF isRecording THEN created + 1 ELSE created
      /\ recognitionRef' = IF isRecording THEN NewRecognition(created', isRecording')
                           ELSE recognitionRef
      /\ UNCHANGED bandVars
      /\ op' = Op("onerror", r.session, reason)
      /\ UNCHANGED <<transcript, wordCount, duration, wpm, results, isSupported,
                     startTimeRef, intervalRef, currentTranscriptRef, now,
                     sessions, saved>>

\* if (isRecording) recognition.start(), with the isRecording the handler
\* closed over
Restarts(r) == r.isRecording

\* recognition.onend of a running instance: the stream has ended.  A
\* restart the capability accepts begins a new result list.
OnEnd ==
    \E r \in running, accepted \in BOOLEAN :
      /\ running' = IF Restarts(r) /\ accepted
                    THEN (running \ {r}) \cup
                           {[r EXCEPT !.results = <<>>, !.phase = "live"]}
                    ELSE running \ {r}
      /\ UNCHANGED bandVars
      /\ op' = Op(IF Restarts(r) THEN "onend-restart" ELSE "onend", r.session,
                IF accepted THEN "accepted" ELSE "refused")
      /\ UNCHANGED <<isRecording, transcript, wordCount, duration, wpm, results,
                     isSupported, error, recognitionRef, startTimeRef,
                     intervalRef, currentTranscriptRef, timers, now, sessions,
                     created, saved>>

\* Time passes; an interval that is still scheduled runs its callback
\* (setDuration), and the WPM effect follows.
AdvanceTime(b) ==
    \E d \in b.steps :
      /\ now + d <= b.maxNow
      /\ now' = now + d
      /\ duration' = IF timers # {} /\ d >= IntervalMs
                     THEN IntervalCallback(now', startTimeRef)
                     ELSE duration
      /\ LET e == WpmEffect(isRecording, transcript, duration', wordCount, wpm)
         IN wordCount' = e.wordCount /\ wpm' = e.wpm
      /\ UNCHANGED bandVars
      /\ op' = Op("time", sessions, "")
      /\ UNCHANGED <<isRecording, transcript, results, isSupported, error,
                     recognitionRef, startTimeRef, intervalRef,
                     currentTranscriptRef, running, timers, sessions, created,
                     saved>>

\* getWpmLabel(wpm) and getWpmColor(wpm) of one render.
RenderBand ==
    /\ wpmLabel' = GetWpmLabel(bandWpm, bandRanges)
    /\ wpmColor' = GetWpmColor(bandWpm, bandRanges)
    /\ UNCHANGED <<bandRanges, bandWpm>>
    /\ UNCHANGED appVars

NextOf(b) ==
    \/ StartRecording(b)
    \/ StartRecordingFails
    \/ StopRecording
    \/ Reset
    \/ OnResult(b)
    \/ OnError
    \/ OnEnd
    \/ AdvanceTime(b)

(***************************************************************************)
(* Specifications.                                                         *)
(***************************************************************************)
Fragments == {<<"a">>, <<" ">>}
TimeSteps == {31000}
MainBounds == Bounds(Fragments, TimeSteps, MaxNow, MaxSessions, MaxRunning, MaxResults)

Next == NextOf(MainBounds)

Spec == Init /\ [][Next]_vars

\* Two sessions, so that a stream of the first can outlive it.
TwoBounds == Bounds(Fragments, TimeSteps, TwoNow, TwoSessions, TwoRunning, TwoResults)

NextTwo == NextOf(TwoBounds)

SpecTwo == Init /\ [][NextTwo]_vars

\* One stream and its snapshots alone: the aggregation of onresult applied
\* to every result list of up to StreamResults results.
StreamFragments == {<<"a">>, <<"b">>, <<" ">>}
StreamBounds == Bounds(StreamFragments, {}, 0, StreamSessions, StreamSessions, StreamResults)

NextStream == StartRecording(StreamBounds) \/ OnResult(StreamBounds)

SpecStream == Init /\ [][NextStream]_vars

\* Twelve sessions of one-word transcripts, to fill the history past its cap.
HistFragments == {<<"a">>}
HistSteps == {5000}
HistBounds == Bounds(HistFragments, HistSteps, HistNow, HistSessions, HistRunning, HistResults)

NextHist == NextOf(HistBounds)

SpecHist == Init /\ [][NextHist]_vars

\* One session with the texts and the times of the "hello world" scenario.
HelloWorld == <<"h", "e", "l", "l", "o", " ", "w", "o", "r", "l", "d">>
ThisIsATest == <<" ", "t", "h", "i", "s", " ", "i", "s", " ", "a", " ", "t", "e",
                 "s", "t", " ", "o", "f", " ", "s", "p", "e", "a", "k", "i",
                 "n", "g", " ", "s", "p", "e", "e", "d">>
ScenFragments == {HelloWorld, ThisIsATest}
ScenSteps == {5000, 26000}
ScenBounds == Bounds(ScenFragments, ScenSteps, ScenNow, ScenSessions, ScenRunning, ScenResults)

NextScen == NextOf(ScenBounds)

SpecScen == Init /\ [][NextScen]_vars

\* The two cascades applied to every wpm up to MaxWpm, under the ranges of
\* each region and under every valid ranges with breakpoints up to MaxBreak.
SmallRanges ==
    {r \in {Ranges(s, l, h, f, v) : s \in 1..MaxBreak, l \in 1..MaxBreak,
                                    h \in 1..MaxBreak, f \in 1..MaxBreak,
                                    v \in 1..MaxBreak} : ValidRanges(r)}

InitBand ==
    /\ Mounted
    /\ bandRanges \in {REGIONAL_SPEEDS[k] : k \in Regions} \cup SmallRanges
    /\ bandWpm \in 0..MaxWpm
    /\ wpmLabel = ""
    /\ wpmColor = ""

NextBand == RenderBand

SpecBand == InitBand /\ [][NextBand]_vars

(***************************************************************************)
(* Claims.                                                                 *)
(***************************************************************************)

\* C1: stop() adds exactly one SessionResult to the history if and only if
\* the transcript captured at the stop call is non-empty after trimming and
\* has a word count above 0; in every other case stop() leaves the history
\* as it was.
StopSavesIffContent ==
    [][op'.name = "stop" =>
         IF Trim(currentTranscriptRef) # <<>> /\ CountWords(currentTranscriptRef) > 0
         THEN /\ saved' = saved + 1
              /\ Len(results') = Min(Len(results) + 1, HistoryCap)
              /\ results'[1].transcript = Trim(currentTranscriptRef)
              /\ \A i \in 2..Len(results') : results'[i] = results[i - 1]
         ELSE saved' = saved /\ results' = results]_vars

\* A stop() on a transcript of white space only: nothing is saved.
StopOnWhitespaceReached ==
    /\ op.name = "stop"
    /\ currentTranscriptRef = <<" ">>
    /\ saved = 0
    /\ results = <<>>

\* C2: the history holds at most 10 results, newest first; a successful
\* stop() on a full history removes the oldest entry and keeps the order of
\* the others.
HistoryBoundedNewestFirst ==
    /\ [](Len(results) <= HistoryCap)
    /\ [](\A i \in 1..(Len(results) - 1) :
             results[i].timestamp >= results[i + 1].timestamp)
    /\ [][Len(results) = HistoryCap /\ saved' = saved + 1 =>
             /\ Len(results') = HistoryCap
             /\ results'[1].timestamp = now
             /\ \A i \in 1..(HistoryCap - 1) : results'[i + 1] = results[i]]_vars

\* An eleventh result saved into a full history whose entries differ.
EvictionReached ==
    /\ op.name = "stop"
    /\ saved = HistoryCap + 1
    /\ Len(results) = HistoryCap
    /\ results[1].timestamp > results[HistoryCap].timestamp

\* C3: while recording with less than 30 seconds elapsed the wpm is 0,
\* whatever snapshots have arrived.
WpmZeroBelowThreshold ==
    isRecording /\ duration < ActivationThreshold * 1000 => wpm = 0

\* A snapshot with words has arrived in a running session.
WordsBelowThresholdReached ==
    /\ isRecording
    /\ op.name = "onresult"
    /\ duration < ActivationThreshold * 1000
    /\ wordCount > 0
    /\ wpm = 0

\* C4: a snapshot that arrives after stop() has made the session idle is
\* discarded: it changes neither the live transcript nor the captured
\* transcript, and a snapshot of an earlier session's stream never alters
\* the transcript of a later session.
LateSnapshotDiscarded ==
    [][op'.name = "onresult" /\ (op.name = "stop" \/ op'.session < sessions) =>
         /\ transcript' = transcript
         /\ currentTranscriptRef' = currentTranscriptRef]_vars

\* C5: when the stream that start() started ends while the session is
\* recording, the session stays recording and a restart of the stream is
\* requested.
TerminationRestarts ==
    [][/\ op'.name \in {"onend", "onend-restart"}
       /\ op'.session = sessions
       /\ isRecording
       => isRecording' /\ op'.name = "onend-restart"]_vars

\* C6: after the session's stream has ended during recording and the
\* capability accepts a restart, the stream runs again and its later
\* snapshots keep the text that was final before: that text stays the
\* beginning of the live transcript.
RestartKeepsTranscript ==
    [][/\ (/\ op'.name \in {"onend", "onend-restart"}
           /\ op'.arg = "accepted"
           /\ op'.session = sessions
           /\ isRecording
           => \E r \in running' : r.session = sessions /\ r.phase = "live")
       /\ (op'.name = "onresult" =>
             \A r \in running \ running' :
                 r.session = sessions => IsPrefix(r.complete, transcript'))]_vars

\* C7: along the snapshots of one stream, whose final results keep their
\* text, the final portion of the transcript at one snapshot is a prefix of
\* the final portion at the next, and of the transcript built from it.
FinalPortionAppendOnly ==
    [][op'.name = "onresult" =>
         \A r \in running : \A r2 \in running' :
             r.id = r2.id =>
                 /\ IsPrefix(r.complete, r2.complete)
                 /\ IsPrefix(r2.complete, transcript')]_vars

\* Two different final results followed by an interim one.
TwoFinalsReached ==
    \E r \in running :
        /\ Len(r.results) = 3
        /\ r.results[1].isFinal /\ r.results[2].isFinal /\ ~r.results[3].isFinal
        /\ r.results[1].text # r.results[2].text
        /\ r.complete = r.results[1].text \o r.results[2].text
        /\ transcript = r.complete \o r.results[3].text

\* C8: with "hello world" final at 5 s the word count is 2 and the wpm 0;
\* with "hello world this is a test of speaking speed" final at 31 s the
\* word count is 8 and the wpm 15; stop() at 31 s saves one result with
\* wordCount 8, wpm 15 and a duration of 31 s.
ScenarioText == HelloWorld \o ThisIsATest

HelloWorldScenario ==
    /\ (isRecording /\ now - startTimeRef = 5000 /\ transcript = HelloWorld =>
          wordCount = 2 /\ wpm = 0)
    /\ (isRecording /\ now - startTimeRef = 31000 /\ transcript = ScenarioText =>
          wordCount = 8 /\ wpm = 15)
    /\ (op.name = "stop" /\ now - startTimeRef = 31000
          /\ currentTranscriptRef = ScenarioText =>
          /\ saved = 1
          /\ results[1].wordCount = 8
          /\ results[1].wpm = 15
          /\ results[1].duration = 31000)

\* C9: an error signal during recording makes the session idle, exposes a
\* message with the reason, and saves no result; the history then stays as
\* it is until a new start().
ErrorEndsSession ==
    [][/\ (op'.name = "onerror" =>
             /\ ~isRecording'
             /\ error' = "Speech recognition error: " \o op'.arg
             /\ results' = results
             /\ saved' = saved)
       /\ (~isRecording /\ op'.name # "start" =>
             ~isRecording' /\ results' = results)]_vars

\* An error has ended a session that had a transcript; nothing was saved.
ErrorDuringRecordingReached ==
    /\ op.name = "onerror"
    /\ ~isRecording
    /\ error = "Speech recognition error: network"
    /\ transcript = <<"a">>
    /\ sessions = 1
    /\ results = <<>>

\* C10: a start() whose capability start fails ends idle with the start
\* error reported, no interval scheduled and the history unchanged, and
\* start() can be invoked again.
StartFailureRecoverable ==
    /\ [][op'.name = "startFails" =>
            /\ ~isRecording'
            /\ error' = "Failed to start speech recognition. Please try again."
            /\ timers' = {}
            /\ results' = results]_vars
    /\ [](op.name = "startFails" /\ sessions < MaxSessions
             /\ Cardinality(running) < MaxRunning =>
            ENABLED StartRecording(MainBounds))

\* A failed start().
StartFailureReached ==
    /\ op.name = "startFails"
    /\ ~isRecording
    /\ error = "Failed to start speech recognition. Please try again."
    /\ timers = {}
    /\ sessions < MaxSessions

\* C11: after a successful start() the interval timer stays scheduled for
\* as long as the session is recording (so that, the timer being run
\* fairly, the elapsed time leaves 0 and reaches the threshold).
ClockScheduledWhileRecording ==
    isRecording => intervalRef # NULL /\ intervalRef \in timers

\* C12: once stop() has returned no interval is scheduled and no tick is
\* applied: the elapsed time keeps the value it had at stop() until the next
\* start() or reset().
StopCancelsClock ==
    /\ [](op.name = "stop" => timers = {} /\ intervalRef = NULL)
    /\ [][~isRecording /\ duration' # duration =>
            op'.name \in {"start", "startFails", "reset"}]_vars

\* Time has passed after a stop() that saved a result.
TimeAfterStopReached ==
    /\ op.name = "time"
    /\ ~isRecording
    /\ saved = 1
    /\ now > results[1].timestamp
    /\ duration = results[1].duration

\* C13: reset() leaves the history as it was, entry by entry and in order.
ResetKeepsHistory ==
    [][op'.name = "reset" =>
         /\ Len(results') = Len(results)
         /\ \A i \in 1..Len(results) : results'[i] = results[i]]_vars

\* A reset() with two results in the history.
ResetWithHistoryReached ==
    /\ op.name = "reset"
    /\ Len(results) = 2
    /\ transcript = <<>>

\* C14: reset() is never applied while the session is recording.
ResetOnlyFromIdle ==
    [][op'.name = "reset" => ~isRecording]_vars

\* C15: for every valid ranges and every wpm above 0 the cascade gives
\* exactly one of the four tiers, the tiers being disjoint sets of wpm
\* values that leave no gap, and the label and the colour are of the same
\* tier.
TierOfLabel(l) ==
    CASE l = "Slow" -> "TooSlow"
      [] l = "Ideal" -> "Ideal"
      [] l = "Fast" -> "Fast"
      [] l = "Very Fast" -> "VeryFast"
      [] OTHER -> "Pending"

TierOfColor(c) ==
    CASE c = "text-red-500" -> "TooSlow"
      [] c = "text-green-500" -> "Ideal"
      [] c = "text-yellow-500" -> "Fast"
      [] c = "text-blue-500" -> "VeryFast"
      [] OTHER -> "Pending"

TiersOf(w, r) ==
    {t \in {"TooSlow", "Ideal", "Fast", "VeryFast"} :
        \/ (t = "TooSlow" /\ w < r.slow)
        \/ (t = "Ideal" /\ r.normal[1] <= w /\ w <= r.normal[2])
        \/ (t = "Fast" /\ ((r.slow <= w /\ w < r.normal[1]) \/ (r.normal[2] < w /\ w < r.fast)))
        \/ (t = "VeryFast" /\ r.fast <= w)}

BandsPartition ==
    wpmLabel # "" /\ bandWpm > 0 /\ ValidRanges(bandRanges) =>
        /\ TiersOf(bandWpm, bandRanges) = {TierOfLabel(wpmLabel)}
        /\ TierOfColor(wpmColor) = TierOfLabel(wpmLabel)

\* A wpm equal to the fast breakpoint of the US ranges has been classified.
BandAtFastReached ==
    /\ bandRanges = REGIONAL_SPEEDS["us"]
    /\ bandWpm = bandRanges.fast
    /\ wpmLabel = "Very Fast"
    /\ wpmColor = "text-blue-500"

\* C20: a wpm equal to slow is classified TooSlow, a wpm equal to fast is
\* classified Fast, and every wpm of the closed normal interval is
\* classified Ideal.
BoundaryInLowerTier ==
    wpmLabel # "" /\ bandWpm > 0 /\ ValidRanges(bandRanges) =>
        /\ (bandWpm = bandRanges.slow => TierOfLabel(wpmLabel) = "TooSlow")
        /\ (bandWpm = bandRanges.fast => TierOfLabel(wpmLabel) = "Fast")
        /\ (bandRanges.normal[1] <= bandWpm /\ bandWpm <= bandRanges.normal[2] =>
               TierOfLabel(wpmLabel) = "Ideal")

\* C16: while recording, once a snapshot has been folded in, the word count
\* is the number of words of the trimmed transcript, and 0 when the trimmed
\* transcript is empty.
WordCountFollowsTranscript ==
    isRecording /\ op.name = "onresult" => wordCount = CountWords(transcript)

\* C17: stop() asks the stream that the session's start() started to stop:
\* a live stream of the current session is stopping once stop() has run.
StopReachesStartedStream ==
    [][op'.name = "stop" =>
         \A r \in running :
             r.session = sessions /\ r.phase = "live" =>
                 \E r2 \in running' : r2.id = r.id /\ r2.phase = "stopping"]_vars

\* C19: the transcript of a snapshot is the text of every final result, in
\* order, followed by the text of every result that is not final, also of
\* one that lies below resultIndex.
TranscriptOfWholeList ==
    op.name = "onresult" =>
        \A r \in running :
            r.session = op.session =>
                transcript = Concat(r.results, 1, TRUE, <<>>)
                               \o Concat(r.results, 1, FALSE, <<>>)

\* C21: the result stop() saves holds the elapsed time last sampled before
\* the stop and the wpm round(wordCount / seconds * 60) of it, 0 when it is
\* 0; the 30-second threshold is not applied, so a session with words that
\* is stopped before 30 seconds stores a wpm above 0.
StoredWpmOfElapsed ==
    op.name = "stop" /\ saved = 1 =>
        /\ results[1].duration = now - startTimeRef
        /\ results[1].wpm = IF results[1].duration > 0
                            THEN WpmOf(results[1].wordCount, results[1].duration)
                            ELSE 0
        /\ (0 < now - startTimeRef /\ now - startTimeRef < ActivationThreshold * 1000
               => results[1].wpm > 0)

\* C22: at most one interval is scheduled in every state, none while the
\* session is idle (after stop(), after an error, after a failed start()),
\* and start() is invoked only while the session is not recording.
OneClockNoneWhenIdle ==
    /\ [](Cardinality(timers) <= 1)
    /\ [](~isRecording => timers = {})
    /\ [][op'.name \in {"start", "startFails"} => ~isRecording]_vars
    /\ [](isRecording => ~ENABLED StartRecording(TwoBounds))

\* An error has ended a session whose interval id is still in intervalRef.
IdleAfterErrorReached ==
    /\ op.name = "onerror"
    /\ ~isRecording
    /\ sessions = 1
    /\ intervalRef # NULL
    /\ timers = {}

====
